---------------------------- MODULE Spec2Model ----------------------------
(***************************************************************************)
(* The Community chat client of TripVerse as a state machine: the page     *)
(* (src/pages/Community.tsx), the thread view and the group dialog         *)
(* (src/components/ChatThread.tsx) and the group panel                     *)
(* (src/unnamed/part_000), together with the requests they have in flight  *)
(* and the part of the API's state their responses depend on.              *)
(*                                                                         *)
(* Identifiers are the decimal strings the code builds with toString().    *)
(* Display names, avatars and time stamps are left out: no handler reads   *)
(* them.  A text is a sequence of characters.                              *)
(***************************************************************************)
EXTENDS Integers, Sequences, FiniteSets, Bags, TLC

(* ------------------------------ bounds -------------------------------- *)
MaxLen == 1
NumUsers == 1
MaxSrvConvs == 3
MaxSrvMsgs == 3
MaxMounts == 2
MaxInFlight == 2
MaxMembers == 2

Chars == {" ", "a"}
Users == 1..NumUsers
NoToken == "null"
Tokens == {NoToken, "jwt"}
NoChat == ""
NoUser == "null"
SavedUsers == {NoUser, "profile"}

VARIABLES
  token,            \* localStorage "token"
  route,            \* "community" | "login" | "other"
  gen,              \* number of mounts of the page so far
  gate,             \* position of the session-gate effect
  chats, users, selectedChatId, loading, showGroupInfo, showCreateGroup,
  thread,           \* ChatThread state: messages, message, loading
  drawer,           \* GroupInfoDrawer state: members, loading, adding
  dialog,           \* CreateGroupDialog state
  net,              \* bag of requests in flight
  srvConvs,         \* the API's conversations, in creation order
  srvMsgs,          \* the API's messages, in arrival order (id = position)
  area,             \* the area of the page the user works in
  slack,            \* per operation: triggering events so far minus requests issued
  opened,           \* the ids that have been the selected conversation of this page
  searchTerm,       \* the search box of the chat list
  savedUser,        \* localStorage "user"
  navUser,          \* the navigation bar's user state
  loggedOut,        \* handleLogout has run
  out               \* what the last step was and wrote: console.error and toast

pageVars == <<chats, users, selectedChatId, loading, showGroupInfo, showCreateGroup>>
childVars == <<thread, drawer, dialog>>
srvVars == <<srvConvs, srvMsgs>>
sessionVars == <<savedUser, navUser, loggedOut>>
vars == <<token, route, gen, gate, pageVars, childVars, net, srvVars, area, slack, opened,
         searchTerm, sessionVars, out>>

(* ------------------------------ texts --------------------------------- *)
RECURSIVE SeqsUpTo(_)
SeqsUpTo(n) ==
  IF n = 0 THEN {<<>>}
  ELSE LET shorter == SeqsUpTo(n - 1)
       IN  shorter \cup {Append(s, c) : s \in {t \in shorter : Len(t) = n - 1}, c \in Chars}

Contents == SeqsUpTo(MaxLen)

IsSpace(c) == c = " "

RECURSIVE TrimStart(_)
TrimStart(s) ==
  IF s # <<>> /\ IsSpace(Head(s)) THEN TrimStart(Tail(s)) ELSE s

RECURSIVE TrimEnd(_)
TrimEnd(s) ==
  IF s # <<>> /\ IsSpace(s[Len(s)]) THEN TrimEnd(SubSeq(s, 1, Len(s) - 1)) ELSE s

Trim(s) == TrimEnd(TrimStart(s))

\* !s for a string: the empty string is the only falsy one
Falsy(s) == s = <<>>

(* ---------------------------- sequences ------------------------------- *)
Range(s) == {s[i] : i \in 1..Len(s)}

MapSeq(s, F(_)) == [i \in 1..Len(s) |-> F(s[i])]

Some(s, P(_)) == \E i \in 1..Len(s) : P(s[i])

\* Array.prototype.find: the first element that satisfies P
FindIndex(s, P(_)) ==
  IF Some(s, P) THEN CHOOSE i \in 1..Len(s) : P(s[i]) /\ \A j \in 1..(i - 1) : ~P(s[j])
  ELSE 0

(* ------------------------------ records ------------------------------- *)
\* what a step wrote: op names the handler or continuation that ran, log is its
\* console.error text and toast its notice ("" when it wrote none)
Did(op) == [op |-> op, log |-> "", toast |-> ""]

Logged(op, msg) == [op |-> op, log |-> msg, toast |-> ""]

LoggedToast(op, msg, t) == [op |-> op, log |-> msg, toast |-> t]

Toast(op, t) == [op |-> op, log |-> "", toast |-> t]

\* a catch block that only logs, whatever the call
CatchNotice_LogOnly(op) == <<"Error:", "">>

\* the catch block of each call: its console.error text and its toast ("" when
\* the block shows none)
CatchNotice(op) ==
  CASE op = "conversations" -> <<"Error fetching conversations:", "">>
    [] op = "pageUsers" -> <<"Error fetching users:", "">>
    [] op = "pageMessages" -> <<"Error fetching messages:", "">>
    [] op = "threadMessages" -> <<"Error fetching messages:", "">>
    [] op = "threadSend" -> <<"Error sending message:", "">>
    [] op = "pageSend" -> <<"Error sending message:", "">>
    [] op = "pageGroup" -> <<"Error creating group:", "Failed to create group">>
    [] op = "dm" -> <<"Error opening DM:", "Failed to open DM">>
    [] op = "dialogUsers" -> <<"Error fetching users:", "Failed to load users.">>
    [] op = "dialogGroup" -> <<"Error creating group:", "Failed to create group. Try again.">>
    [] op = "members" -> <<"Error fetching members:", "Failed to load group members">>
    [] op = "addMember" -> <<"Error adding member:", "Failed to add member">>
    [] op = "removeMember" -> <<"Error removing member:", "Failed to remove member">>
    [] op = "leaveMe" -> <<"Error leaving group:", "Failed to leave group">>
    [] op = "leaveDelete" -> <<"Error leaving group:", "Failed to leave group">>
    [] op = "deleteGroup" -> <<"Error deleting group:", "Failed to delete group">>

Caught(op) == LoggedToast(op \o "Fail", CatchNotice(op)[1], CatchNotice(op)[2])

\* the calls whose catch block only reports
ReportOnly ==
  {"pageUsers", "pageMessages", "threadSend", "pageSend", "pageGroup", "dm",
   "dialogUsers", "removeMember", "leaveMe", "leaveDelete", "deleteGroup"}

ThreadInit == [messages |-> <<>>, message |-> <<>>, loading |-> TRUE]

DrawerInit == [members |-> <<>>, loading |-> TRUE, adding |-> FALSE]

DialogInit == [groupName |-> <<>>, selectedMembers |-> <<>>, contacts |-> <<>>, loading |-> FALSE]

\* headers: { Authorization: `Bearer ${token}` }
Bearer(t) == "Bearer " \o t

\* a request in flight: op names the call site, gen the mount that issued it;
\* auth is its Authorization header; conv, content, ids are what the call
\* sends; seen is the chats the issuing closure captured; lo is the number of
\* messages the API held when it was issued
Req(g, op, conv, content, ids, seen, lo) ==
  [op |-> op, gen |-> g, auth |-> Bearer(token), conv |-> conv, content |-> content,
   ids |-> ids, seen |-> seen, lo |-> lo]

Get(g, op, conv) == Req(g, op, conv, <<>>, <<>>, <<>>, 0)

Send(r) == net (+) SetToBag({r})

Settle(r) == net (-) SetToBag({r})

InFlight == BagToSet(net)

\* the continuation of r still belongs to a mounted page
Live(r) == route = "community" /\ r.gen = gen

(* ------------------------------ the API ------------------------------- *)
\* GET /api/conversations: every conversation the API holds (id = position in
\* srvConvs; a deleted one stays there with alive = FALSE, its id is not reused)
ConversationsData == SelectSeq(srvConvs, LAMBDA c : c.alive)

\* GET /api/auth/all: the directory
DirectoryData == [i \in 1..NumUsers |-> i]

(* ------------------------------ the page ------------------------------ *)
Areas == {"thread", "list", "group", "panel"}

\* the operations of the API and the call sites of each
Sites(op) ==
  CASE op = "verify" -> {"me", "leaveMe"}
    [] op = "conversations" -> {"conversations"}
    [] op = "directory" -> {"pageUsers", "dialogUsers"}
    [] op = "messages" -> {"pageMessages", "threadMessages"}
    [] op = "send" -> {"threadSend", "pageSend"}
    [] op = "group" -> {"dialogGroup", "pageGroup"}
    [] op = "leave" -> {"leaveDelete"}
    [] OTHER -> {op}

Operations ==
  {"verify", "conversations", "directory", "messages", "send", "group", "dm", "members",
   "addMember", "removeMember", "leave", "deleteGroup"}

Init ==
  /\ token \in Tokens
  /\ area \in Areas
  /\ slack = [op \in Operations |-> 0]
  /\ opened = {}
  /\ searchTerm = <<>>
  /\ savedUser = (IF token = NoToken THEN NoUser ELSE "profile")
  /\ navUser = savedUser
  /\ loggedOut = FALSE
  /\ route = "other"
  /\ gen = 0
  /\ gate = "idle"
  /\ chats = <<>>
  /\ users = <<>>
  /\ selectedChatId = NoChat
  /\ loading = TRUE
  /\ showGroupInfo = FALSE
  /\ showCreateGroup = FALSE
  /\ thread = ThreadInit
  /\ drawer = DrawerInit
  /\ dialog = DialogInit
  /\ net = EmptyBag
  /\ srvConvs = <<[id |-> 1, type |-> "GROUP", user |-> 0, alive |-> TRUE]>>
  /\ srvMsgs = <<[conv |-> 1, isMe |-> FALSE, content |-> <<"a">>]>>
  /\ out = Did("init")

\* useState initial values (Community.tsx 52-61, ChatThread.tsx 34-36,
\* 267-270, part_000 140-142); also the state an unmounted page is kept in
FreshState ==
  /\ chats' = <<>>
  /\ users' = <<>>
  /\ selectedChatId' = NoChat
  /\ loading' = TRUE
  /\ showGroupInfo' = FALSE
  /\ showCreateGroup' = FALSE
  /\ thread' = ThreadInit
  /\ drawer' = DrawerInit
  /\ dialog' = DialogInit

\* a mount that verifies whatever localStorage holds
Mount_NoGate ==
  /\ route # "community"
  /\ gen < MaxMounts
  /\ gen' = gen + 1
  /\ FreshState
  /\ route' = "community"
  /\ gate' = "verifying"
  /\ net' = Send(Get(gen + 1, "me", NoChat))
  /\ out' = Did("mount")
  /\ UNCHANGED <<area, token, srvVars>>

\* the user opens /community: the page mounts and its first effect runs
Mount ==
  /\ route # "community"
  /\ gen < MaxMounts
  /\ gen' = gen + 1
  /\ FreshState
  /\ IF token = NoToken
     THEN /\ route' = "login"
          /\ gate' = "notoken"
          /\ net' = net
     ELSE /\ route' = "community"
          /\ gate' = "verifying"
          /\ net' = Send(Get(gen + 1, "me", NoChat))
  /\ out' = Did("mount")
  /\ UNCHANGED <<area, token, srvVars>>

\* the user follows a navigation link (part_000 30-63): the page unmounts
NavigateAway ==
  /\ route = "community"
  /\ route' = "other"
  /\ gate' = "idle"
  /\ FreshState
  /\ out' = Did("navigate")
  /\ UNCHANGED <<area, token, gen, net, srvVars>>

\* TopNavbar.handleLogout: localStorage.removeItem("user"); setUser(null);
\* navigate("/login"), which unmounts the page when it is mounted; no request is
\* issued and localStorage's "token" is not touched
HandleLogout ==
  /\ savedUser' = NoUser
  /\ navUser' = NoUser
  /\ loggedOut' = TRUE
  /\ route' = "login"
  /\ gate' = "idle"
  /\ FreshState
  /\ opened' = {}
  /\ out' = Did("handleLogout")
  /\ UNCHANGED <<area, token, gen, net, srvVars, slack, searchTerm>>

\* GET /api/auth/me answered 200: .then(() => { fetchConversations(); fetchAllUsers(); })
MeOk(r) ==
  /\ r.op = "me"
  /\ net' = Settle(r) (+) SetToBag({Get(r.gen, "conversations", NoChat),
                                    Get(r.gen, "pageUsers", NoChat)})
  /\ gate' = IF Live(r) THEN "ok" ELSE gate
  /\ out' = Did("meOk")
  /\ UNCHANGED <<area, token, route, gen, pageVars, childVars, srvVars>>

\* a failed verification that leaves the page where it is
MeFail_Stay(r) ==
  /\ r.op = "me"
  /\ net' = Settle(r)
  /\ gate' = IF Live(r) THEN "failed" ELSE gate
  /\ out' = Did("meFail")
  /\ UNCHANGED <<area, token, route, gen, pageVars, childVars, srvVars>>

\* GET /api/auth/me failed: .catch(() => navigate("/login"))
MeFail(r) ==
  /\ r.op = "me"
  /\ net' = Settle(r)
  /\ route' = "login"
  /\ gate' = IF Live(r) THEN "failed" ELSE IF route = "community" THEN "idle" ELSE gate
  /\ FreshState
  /\ out' = Did("meFail")
  /\ UNCHANGED <<area, token, gen, srvVars>>

\* a formatting that marks every loaded conversation a favorite
FormatChat_Starred(conv) ==
  [id |-> ToString(conv.id), isGroup |-> conv.type = "GROUP", isFavorite |-> TRUE,
   members |-> <<>>, messages |-> <<>>, type |-> "GROUP"]

FormatChat(conv) ==
  [id |-> ToString(conv.id), isGroup |-> conv.type = "GROUP", isFavorite |-> FALSE,
   members |-> <<>>, messages |-> <<>>, type |-> "GROUP"]

ConversationsOk(r) ==
  /\ r.op = "conversations"
  /\ net' = Settle(r)
  /\ IF Live(r)
     THEN /\ chats' = MapSeq(ConversationsData, FormatChat)
          /\ loading' = FALSE
     ELSE UNCHANGED <<chats, loading>>
  /\ out' = Did("conversationsOk")
  /\ UNCHANGED <<area, token, route, gen, gate, users, selectedChatId, showGroupInfo,
                 showCreateGroup, childVars, srvVars>>

\* a catch block without the finally: a failed fetch leaves the page loading
ConversationsFail_Stuck(r) ==
  /\ r.op = "conversations"
  /\ net' = Settle(r)
  /\ out' = Caught(r.op)
  /\ UNCHANGED <<area, token, route, gen, gate, chats, users, selectedChatId, loading,
                 showGroupInfo, showCreateGroup, childVars, srvVars>>

ConversationsFail(r) ==
  /\ r.op = "conversations"
  /\ net' = Settle(r)
  /\ loading' = IF Live(r) THEN FALSE ELSE loading
  /\ out' = Caught(r.op)
  /\ UNCHANGED <<area, token, route, gen, gate, chats, users, selectedChatId, showGroupInfo,
                 showCreateGroup, childVars, srvVars>>

PageUsersOk(r) ==
  /\ r.op = "pageUsers"
  /\ net' = Settle(r)
  /\ users' = IF Live(r) THEN DirectoryData ELSE users
  /\ out' = Did("pageUsersOk")
  /\ UNCHANGED <<area, token, route, gen, gate, chats, selectedChatId, loading, showGroupInfo,
                 showCreateGroup, childVars, srvVars>>

(* ----------------------- selection and messages ----------------------- *)
\* chats.find((c) => c.id === id): its position, 0 when there is none
SelectedIndex(cs, id) == FindIndex(cs, LAMBDA c : c.id = id)

\* selectedChat is defined, so the page renders ChatThread
HasThread == SelectedIndex(chats, selectedChatId) > 0

\* the page is rendered (not the "Loading conversations..." screen)
Rendered == route = "community" /\ ~loading

\* the group panel and the group dialog are modal overlays: while one is
\* open the page behind it takes no input
Interactive == Rendered /\ ~showGroupInfo /\ ~showCreateGroup

Quiet == BagCardinality(net) < MaxInFlight

\* the two effects keyed on the selection (Community.tsx 130-167 and
\* ChatThread.tsx 46-75) that run when selectedChatId becomes id
SelectionRequests(id, cs) ==
  IF id = selectedChatId THEN EmptyBag
  ELSE SetToBag({Req(gen, "pageMessages", id, <<>>, <<>>, <<>>, Len(srvMsgs))})
       (+) (IF SelectedIndex(cs, id) > 0 /\ token # NoToken
            THEN SetToBag({Req(gen, "threadMessages", id, <<>>, <<>>, <<>>, Len(srvMsgs))})
            ELSE EmptyBag)

ThreadAfterSelect(id, cs) ==
  IF id = selectedChatId \/ SelectedIndex(cs, id) = 0 \/ token = NoToken THEN thread
  ELSE IF HasThread THEN [thread EXCEPT !.loading = TRUE]
  ELSE ThreadInit

\* a chat can be clicked in the All tab (type GROUP), the Favorites tab or the
\* Groups tab (Community.tsx 380-384, 423-441)
Selectable(c) == c.type = "GROUP" \/ c.isFavorite \/ c.isGroup

SelectChat(i) ==
  /\ Interactive /\ Quiet
  /\ Selectable(chats[i])
  /\ chats[i].id # selectedChatId
  /\ selectedChatId' = chats[i].id
  /\ thread' = ThreadAfterSelect(chats[i].id, chats)
  /\ net' = net (+) SelectionRequests(chats[i].id, chats)
  /\ out' = Did("selectChat")
  /\ UNCHANGED <<area, token, route, gen, gate, chats, users, loading, showGroupInfo,
                 showCreateGroup, drawer, dialog, srvVars>>

ConvExists(conv) == Some(srvConvs, LAMBDA c : c.alive /\ ToString(c.id) = conv)

FormatMessage(i) ==
  [id |-> ToString(i), content |-> srvMsgs[i].content, isOwn |-> srvMsgs[i].isMe]

\* GET /api/messages/:conv answered from the first k messages the API holds
MessagesData(conv, k) ==
  MapSeq(SelectSeq([i \in 1..k |-> i], LAMBDA i : ToString(srvMsgs[i].conv) = conv),
         FormatMessage)

\* the group panel's effect is keyed on the selectedChat object: it runs again
\* when a setChats replaces the object of the chat `touched` (part_000 146-176)
DrawerRefetch(touched) == showGroupInfo /\ HasThread /\ selectedChatId = touched

DrawerAfter(touched) ==
  IF DrawerRefetch(touched) THEN [drawer EXCEPT !.loading = TRUE] ELSE drawer

DrawerRequests(touched) ==
  IF DrawerRefetch(touched) THEN SetToBag({Get(gen, "members", touched)}) ELSE EmptyBag

\* an update that writes the fetched messages into every conversation
SetMessages_All(cs, id, ms) ==
  MapSeq(cs, LAMBDA c : [c EXCEPT !.messages = ms])

\* setChats((prev) => prev.map((chat) => chat.id === selectedChatId ? {...} : chat))
SetMessages(cs, id, ms) ==
  MapSeq(cs, LAMBDA c : IF c.id = id THEN [c EXCEPT !.messages = ms] ELSE c)

PageMessagesOk(r, k) ==
  /\ r.op = "pageMessages"
  /\ ConvExists(r.conv)
  /\ IF Live(r)
     THEN /\ chats' = SetMessages(chats, r.conv, MessagesData(r.conv, k))
          /\ drawer' = DrawerAfter(r.conv)
          /\ net' = Settle(r) (+) DrawerRequests(r.conv)
     ELSE /\ net' = Settle(r)
          /\ UNCHANGED <<chats, drawer>>
  /\ out' = Did("pageMessagesOk")
  /\ UNCHANGED <<area, token, route, gen, gate, users, selectedChatId, loading, showGroupInfo,
                 showCreateGroup, thread, dialog, srvVars>>

ThreadMessagesOk(r, k) ==
  /\ r.op = "threadMessages"
  /\ ConvExists(r.conv)
  /\ net' = Settle(r)
  /\ thread' = IF Live(r)
               THEN [thread EXCEPT !.messages = MessagesData(r.conv, k), !.loading = FALSE]
               ELSE thread
  /\ out' = Did("threadMessagesOk")
  /\ UNCHANGED <<area, token, route, gen, gate, pageVars, drawer, dialog, srvVars>>

ThreadMessagesFail(r) ==
  /\ r.op = "threadMessages"
  /\ net' = Settle(r)
  /\ thread' = IF Live(r) THEN [thread EXCEPT !.loading = FALSE] ELSE thread
  /\ out' = Caught(r.op)
  /\ UNCHANGED <<area, token, route, gen, gate, pageVars, drawer, dialog, srvVars>>

(* ------------------------------ sending ------------------------------- *)
\* the user types in the thread's input
SetMessage(m) ==
  /\ Interactive /\ HasThread
  /\ m # thread.message
  /\ thread' = [thread EXCEPT !.message = m]
  /\ out' = Did("setMessage")
  /\ UNCHANGED <<area, token, route, gen, gate, pageVars, drawer, dialog, net, srvVars>>

\* a send that tests the input without trimming it
ThreadSendRequests_NoTrim(chatId, message) ==
  IF Falsy(message) THEN EmptyBag
  ELSE SetToBag({Req(gen, "threadSend", chatId, message, <<>>, <<>>, 0)})

\* ChatThread.handleSend up to its await: the guard and the POST
ThreadSendRequests(chatId, message) ==
  IF Falsy(Trim(message)) THEN EmptyBag
  ELSE SetToBag({Req(gen, "threadSend", chatId, message, <<>>, <<>>, 0)})

HandleSend ==
  /\ Interactive /\ HasThread /\ Quiet
  /\ net' = net (+) ThreadSendRequests(selectedChatId, thread.message)
  /\ out' = Did("handleSend")
  /\ UNCHANGED <<area, token, route, gen, gate, pageVars, childVars, srvVars>>

\* Community.handleSendMessage up to its await: the guard and the POST
PageSendRequests(g, chatId, content) ==
  IF Falsy(Trim(content)) THEN EmptyBag
  ELSE SetToBag({Req(g, "pageSend", chatId, content, <<>>, <<>>, 0)})

\* POST /api/messages stores the message and answers {data: {id, content}}
StoreMessage(conv, content) ==
  Append(srvMsgs, [conv |-> (CHOOSE c \in Range(srvConvs) : ToString(c.id) = conv).id,
                   isMe |-> TRUE, content |-> content])

CanStore(conv) == ConvExists(conv) /\ Len(srvMsgs) < MaxSrvMsgs

\* an acknowledged message shown as someone else's
SentMessage_NotOwn(content) ==
  [id |-> ToString(Len(srvMsgs) + 1), content |-> content, isOwn |-> FALSE]

SentMessage(content) ==
  [id |-> ToString(Len(srvMsgs) + 1), content |-> content, isOwn |-> TRUE]

ThreadSendOk(r) ==
  /\ r.op = "threadSend"
  /\ CanStore(r.conv)
  /\ srvMsgs' = StoreMessage(r.conv, r.content)
  /\ thread' = IF Live(r)
               THEN [thread EXCEPT !.messages = Append(@, SentMessage(r.content)),
                                   !.message = <<>>]
               ELSE thread
  /\ net' = Settle(r) (+) PageSendRequests(r.gen, r.conv, r.content)
  /\ out' = Did("threadSendOk")
  /\ UNCHANGED <<area, token, route, gen, gate, pageVars, drawer, dialog, srvConvs>>

AppendMessage(cs, id, m) ==
  MapSeq(cs, LAMBDA c : IF c.id = id THEN [c EXCEPT !.messages = Append(@, m)] ELSE c)

PageSendOk(r) ==
  /\ r.op = "pageSend"
  /\ CanStore(r.conv)
  /\ srvMsgs' = StoreMessage(r.conv, r.content)
  /\ IF Live(r)
     THEN /\ chats' = AppendMessage(chats, r.conv, SentMessage(r.content))
          /\ drawer' = DrawerAfter(r.conv)
          /\ net' = Settle(r) (+) DrawerRequests(r.conv)
     ELSE /\ net' = Settle(r)
          /\ UNCHANGED <<chats, drawer>>
  /\ out' = Did("pageSendOk")
  /\ UNCHANGED <<area, token, route, gen, gate, users, selectedChatId, loading, showGroupInfo,
                 showCreateGroup, thread, dialog, srvConvs>>

\* a call failed and its catch block only reports: no state is set
CallFailed(r) ==
  /\ r.op \in ReportOnly
  /\ net' = Settle(r)
  /\ out' = Caught(r.op)
  /\ UNCHANGED <<area, token, route, gen, gate, pageVars, childVars, srvVars>>

(* --------------------------- direct chats ----------------------------- *)
ChatIds(cs) == MapSeq(cs, LAMBDA c : c.id)

\* the users a direct chat can be opened with: the Users tab and the user
\* entries of the All tab (the directory), and the USER-typed chats of the All
\* tab, which pass members[0] (Community.tsx 380-383, 469)
DmTargets ==
  Range(users) \cup {c.members[1] : c \in {d \in Range(chats) : d.type = "USER"}}

HandleOpenDm(u) ==
  /\ Interactive /\ Quiet
  /\ u \in DmTargets
  /\ net' = Send(Req(gen, "dm", NoChat, <<>>, <<u>>, ChatIds(chats), 0))
  /\ out' = Did("handleOpenDm")
  /\ UNCHANGED <<area, token, route, gen, gate, pageVars, childVars, srvVars>>

\* POST /api/conversations/dm?userId=u: the direct conversation with u, created
\* when there is none
DmIndex(u) == FindIndex(srvConvs, LAMBDA c : c.alive /\ c.type = "DM" /\ c.user = u)

DmConvs(u) ==
  IF DmIndex(u) > 0 THEN srvConvs
  ELSE Append(srvConvs, [id |-> Len(srvConvs) + 1, type |-> "DM", user |-> u, alive |-> TRUE])

DmId(u) == IF DmIndex(u) > 0 THEN DmIndex(u) ELSE Len(srvConvs) + 1

NewDmChat(chatId, u) ==
  [id |-> chatId, isGroup |-> FALSE, isFavorite |-> FALSE, members |-> <<u>>,
   messages |-> <<>>, type |-> "USER"]

\* the check reads the chats of the render that issued the call (r.seen), the
\* update is applied to the chats of now
DmChats(cs, seen, chatId, u) ==
  IF chatId \in Range(seen) THEN cs ELSE <<NewDmChat(chatId, u)>> \o cs

DmOk(r) ==
  /\ r.op = "dm"
  /\ DmIndex(r.ids[1]) > 0 \/ Len(srvConvs) < MaxSrvConvs
  /\ srvConvs' = DmConvs(r.ids[1])
  /\ LET chatId == ToString(DmId(r.ids[1]))
         cs == DmChats(chats, r.seen, chatId, r.ids[1])
         regroup == showGroupInfo /\ (chatId # selectedChatId \/ cs # chats)
     IN  IF Live(r)
         THEN /\ chats' = cs
              /\ selectedChatId' = chatId
              /\ thread' = ThreadAfterSelect(chatId, cs)
              /\ drawer' = IF regroup THEN [drawer EXCEPT !.loading = TRUE] ELSE drawer
              /\ net' = Settle(r) (+) SelectionRequests(chatId, cs)
                          (+) (IF regroup THEN SetToBag({Get(gen, "members", chatId)})
                               ELSE EmptyBag)
         ELSE /\ net' = Settle(r)
              /\ UNCHANGED <<chats, selectedChatId, thread, drawer>>
  /\ out' = Did("dmOk")
  /\ UNCHANGED <<area, token, route, gen, gate, users, loading, showGroupInfo, showCreateGroup,
                 dialog, srvMsgs>>

(* ------------------------------ favorites ----------------------------- *)
\* a star that only ever sets the flag
ToggleFavorite_SetOnly(cs, chatId) ==
  IF chatId = "" THEN cs
  ELSE MapSeq(cs, LAMBDA c : IF c.id = chatId THEN [c EXCEPT !.isFavorite = TRUE] ELSE c)

ToggleFavorite(cs, chatId) ==
  IF chatId = "" THEN cs
  ELSE MapSeq(cs, LAMBDA c : IF c.id = chatId THEN [c EXCEPT !.isFavorite = ~@] ELSE c)

\* the ids the star buttons pass: the open chat's (498), an All-tab entry's
\* (408): a chat's id or `user-${u.id}`, a Users-tab entry's (477): the user's id
StarIds ==
  (IF HasThread THEN {selectedChatId} ELSE {})
  \cup Range(ChatIds(chats))
  \cup {"user-" \o ToString(u) : u \in Range(users)}
  \cup {ToString(u) : u \in Range(users)}

HandleToggleFavorite(chatId) ==
  /\ Interactive
  /\ chatId \in StarIds
  /\ chats' = ToggleFavorite(chats, chatId)
  /\ out' = Did("handleToggleFavorite")
  /\ UNCHANGED <<area, token, route, gen, gate, users, selectedChatId, loading, showGroupInfo,
                 showCreateGroup, childVars, net, srvVars>>

(* --------------------------- group creation --------------------------- *)
\* the "New Group" button; the dialog's effect fetches the directory
OpenCreateGroup ==
  /\ Interactive /\ Quiet
  /\ showCreateGroup' = TRUE
  /\ net' = IF token # NoToken THEN Send(Get(gen, "dialogUsers", NoChat)) ELSE net
  /\ out' = Did("openCreateGroup")
  /\ UNCHANGED <<area, token, route, gen, gate, chats, users, selectedChatId, loading,
                 showGroupInfo, childVars, srvVars>>

CloseCreateGroup ==
  /\ Rendered /\ showCreateGroup
  /\ showCreateGroup' = FALSE
  /\ out' = Did("closeCreateGroup")
  /\ UNCHANGED <<area, token, route, gen, gate, chats, users, selectedChatId, loading,
                 showGroupInfo, childVars, net, srvVars>>

DialogUsersOk(r) ==
  /\ r.op = "dialogUsers"
  /\ net' = Settle(r)
  /\ dialog' = IF Live(r) THEN [dialog EXCEPT !.contacts = DirectoryData] ELSE dialog
  /\ out' = Did("dialogUsersOk")
  /\ UNCHANGED <<area, token, route, gen, gate, pageVars, thread, drawer, srvVars>>

SetGroupName(n) ==
  /\ Rendered /\ showCreateGroup
  /\ n # dialog.groupName
  /\ dialog' = [dialog EXCEPT !.groupName = n]
  /\ out' = Did("setGroupName")
  /\ UNCHANGED <<area, token, route, gen, gate, pageVars, thread, drawer, net, srvVars>>

\* a click on a contact row (ChatThread.tsx 374-380)
ToggleMember(u) ==
  /\ Rendered /\ showCreateGroup
  /\ u \in Range(dialog.contacts)
  /\ dialog' = [dialog EXCEPT !.selectedMembers =
                  IF u \in Range(@) THEN SelectSeq(@, LAMBDA id : id # u) ELSE Append(@, u)]
  /\ out' = Did("toggleMember")
  /\ UNCHANGED <<area, token, route, gen, gate, pageVars, thread, drawer, net, srvVars>>

\* a validation that checks the name only
CreateRejection_NameOnly(groupName, selectedMembers) ==
  IF Falsy(Trim(groupName)) THEN "Please enter a group name" ELSE ""

\* CreateGroupDialog.handleCreate up to its await: "" when it goes on to POST,
\* else the notice it rejects with
CreateRejection(groupName, selectedMembers) ==
  IF Falsy(Trim(groupName)) THEN "Please enter a group name"
  ELSE IF Len(selectedMembers) = 0 THEN "Please select at least one member"
  ELSE ""

HandleCreate ==
  /\ Rendered /\ showCreateGroup /\ ~dialog.loading /\ Quiet
  /\ LET no == CreateRejection(dialog.groupName, dialog.selectedMembers)
     IN  IF no # ""
         THEN /\ out' = Toast("handleCreate", no)
              /\ UNCHANGED <<dialog, net>>
         ELSE /\ dialog' = [dialog EXCEPT !.loading = TRUE]
              /\ net' = Send(Req(gen, "dialogGroup", NoChat, Trim(dialog.groupName),
                                 dialog.selectedMembers, <<>>, 0))
              /\ out' = Did("handleCreate")
  /\ UNCHANGED <<area, token, route, gen, gate, pageVars, thread, drawer, srvVars>>

\* POST /api/conversations/group creates a group and answers {group: {id, ...}}
GroupConvs ==
  Append(srvConvs, [id |-> Len(srvConvs) + 1, type |-> "GROUP", user |-> 0, alive |-> TRUE])

CanCreate == Len(srvConvs) < MaxSrvConvs

\* the dialog's POST succeeded: it hands the new group to the page's
\* handleCreateGroup, which POSTs it again (Community.tsx 207-213), and closes
DialogGroupOk(r) ==
  /\ r.op = "dialogGroup"
  /\ CanCreate
  /\ srvConvs' = GroupConvs
  /\ net' = Settle(r) (+) SetToBag({Req(r.gen, "pageGroup", NoChat, r.content, <<>>, <<>>, 0)})
  /\ IF Live(r)
     THEN /\ dialog' = [dialog EXCEPT !.groupName = <<>>, !.selectedMembers = <<>>,
                                      !.loading = FALSE]
          /\ showCreateGroup' = FALSE
     ELSE UNCHANGED <<dialog, showCreateGroup>>
  /\ out' = Toast("dialogGroupOk", "Group created successfully!")
  /\ UNCHANGED <<area, token, route, gen, gate, chats, users, selectedChatId, loading,
                 showGroupInfo, thread, drawer, srvMsgs>>

DialogGroupFail(r) ==
  /\ r.op = "dialogGroup"
  /\ net' = Settle(r)
  /\ dialog' = IF Live(r) THEN [dialog EXCEPT !.loading = FALSE] ELSE dialog
  /\ out' = Caught(r.op)
  /\ UNCHANGED <<area, token, route, gen, gate, pageVars, thread, drawer, srvVars>>

NewGroupChat(id) ==
  [id |-> ToString(id), isGroup |-> TRUE, isFavorite |-> FALSE, members |-> <<>>,
   messages |-> <<>>, type |-> "GROUP"]

\* Community.handleCreateGroup after its await
PageGroupOk(r) ==
  /\ r.op = "pageGroup"
  /\ CanCreate
  /\ srvConvs' = GroupConvs
  /\ net' = Settle(r)
  /\ IF Live(r)
     THEN /\ chats' = <<NewGroupChat(Len(srvConvs) + 1)>> \o chats
          /\ showCreateGroup' = FALSE
     ELSE UNCHANGED <<chats, showCreateGroup>>
  /\ out' = Did("pageGroupOk")
  /\ UNCHANGED <<area, token, route, gen, gate, users, selectedChatId, loading, showGroupInfo,
                 childVars, srvMsgs>>

(* --------------------------- the group panel -------------------------- *)
\* ChatThread's info button, shown for a group chat (ChatThread.tsx 149-158);
\* the panel's effect fetches the members
OpenInfo ==
  /\ Interactive /\ HasThread /\ Quiet
  /\ chats[SelectedIndex(chats, selectedChatId)].isGroup
  /\ showGroupInfo' = TRUE
  /\ drawer' = [drawer EXCEPT !.loading = TRUE]
  /\ net' = Send(Get(gen, "members", selectedChatId))
  /\ out' = Did("openInfo")
  /\ UNCHANGED <<area, token, route, gen, gate, chats, users, selectedChatId, loading,
                 showCreateGroup, thread, dialog, srvVars>>

CloseInfo ==
  /\ Rendered /\ showGroupInfo
  /\ showGroupInfo' = FALSE
  /\ out' = Did("closeInfo")
  /\ UNCHANGED <<area, token, route, gen, gate, chats, users, selectedChatId, loading,
                 showCreateGroup, childVars, net, srvVars>>

\* the panel is open on a group: `group` is not null
PanelOpen == Rendered /\ showGroupInfo /\ HasThread

\* GET /api/conversations/:id/members: the API's member list, any list of
\* distinct users in increasing order (the model keeps no membership)
MemberLists ==
  {ms \in UNION {[1..n -> Users] : n \in 0..MaxMembers} :
     \A i \in 1..Len(ms) : \A j \in 1..Len(ms) : i < j => ms[i] < ms[j]}

NormalizeMember(u) == ToString(u)

MembersOk(r, ms) ==
  /\ r.op = "members"
  /\ ConvExists(r.conv)
  /\ net' = Settle(r)
  /\ drawer' = IF Live(r)
               THEN [drawer EXCEPT !.members = MapSeq(ms, NormalizeMember), !.loading = FALSE]
               ELSE drawer
  /\ out' = Did("membersOk")
  /\ UNCHANGED <<area, token, route, gen, gate, pageVars, thread, dialog, srvVars>>

MembersFail(r) ==
  /\ r.op = "members"
  /\ net' = Settle(r)
  /\ drawer' = IF Live(r) THEN [drawer EXCEPT !.loading = FALSE] ELSE drawer
  /\ out' = Caught(r.op)
  /\ UNCHANGED <<area, token, route, gen, gate, pageVars, thread, dialog, srvVars>>

\* what the user answers to prompt("Enter user ID to add:"): a user id, or
\* nothing (the empty string; Cancel gives null, falsy as well)
PromptAnswers == {""} \cup {ToString(u) : u \in Users}

\* Number(newMemberId)
NumberOf(id) == CHOOSE u \in Users : ToString(u) = id

\* GroupInfoDrawer.handleAddMembers up to its await; prompt() blocks, so
\* setAdding(true) and, on an empty answer, the finally's setAdding(false) are
\* one step
HandleAddMembers(answer) ==
  /\ PanelOpen /\ ~drawer.adding /\ Quiet
  /\ Len(drawer.members) < MaxMembers
  /\ IF answer = ""
     THEN UNCHANGED <<drawer, net>>
     ELSE /\ drawer' = [drawer EXCEPT !.adding = TRUE]
          /\ net' = Send(Req(gen, "addMember", selectedChatId, <<>>, <<NumberOf(answer)>>, <<>>, 0))
  /\ out' = Did("handleAddMembers")
  /\ UNCHANGED <<area, token, route, gen, gate, pageVars, thread, dialog, srvVars>>

AddMemberOk(r) ==
  /\ r.op = "addMember"
  /\ ConvExists(r.conv)
  /\ net' = Settle(r)
  /\ drawer' = IF Live(r)
               THEN [drawer EXCEPT !.members = Append(@, ToString(r.ids[1])), !.adding = FALSE]
               ELSE drawer
  /\ out' = Toast("addMemberOk", "Member added successfully!")
  /\ UNCHANGED <<area, token, route, gen, gate, pageVars, thread, dialog, srvVars>>

AddMemberFail(r) ==
  /\ r.op = "addMember"
  /\ net' = Settle(r)
  /\ drawer' = IF Live(r) THEN [drawer EXCEPT !.adding = FALSE] ELSE drawer
  /\ out' = Caught(r.op)
  /\ UNCHANGED <<area, token, route, gen, gate, pageVars, thread, dialog, srvVars>>

\* a removal that takes the member off the list before the API has answered
HandleRemoveMember_Optimistic(i) ==
  /\ PanelOpen /\ ~drawer.loading /\ Quiet
  /\ net' = Send(Req(gen, "removeMember", selectedChatId, <<>>,
                     <<NumberOf(drawer.members[i])>>, <<>>, 0))
  /\ drawer' = [drawer EXCEPT !.members = SelectSeq(@, LAMBDA m : m # drawer.members[i])]
  /\ out' = Did("handleRemoveMember")
  /\ UNCHANGED <<area, token, route, gen, gate, pageVars, thread, dialog, srvVars>>

\* the member rows are rendered once the list has loaded (part_000 310-356)
HandleRemoveMember(i) ==
  /\ PanelOpen /\ ~drawer.loading /\ Quiet
  /\ net' = Send(Req(gen, "removeMember", selectedChatId, <<>>,
                     <<NumberOf(drawer.members[i])>>, <<>>, 0))
  /\ out' = Did("handleRemoveMember")
  /\ UNCHANGED <<area, token, route, gen, gate, pageVars, childVars, srvVars>>

RemoveMemberOk(r) ==
  /\ r.op = "removeMember"
  /\ ConvExists(r.conv)
  /\ net' = Settle(r)
  /\ drawer' = IF Live(r)
               THEN [drawer EXCEPT !.members = SelectSeq(@, LAMBDA m : m # ToString(r.ids[1]))]
               ELSE drawer
  /\ out' = Toast("removeMemberOk", "removed from group")
  /\ UNCHANGED <<area, token, route, gen, gate, pageVars, thread, dialog, srvVars>>

\* GroupInfoDrawer.handleLeaveGroup: GET /auth/me, then DELETE the member
HandleLeaveGroup ==
  /\ PanelOpen /\ Quiet
  /\ net' = Send(Get(gen, "leaveMe", selectedChatId))
  /\ out' = Did("handleLeaveGroup")
  /\ UNCHANGED <<area, token, route, gen, gate, pageVars, childVars, srvVars>>

LeaveMeOk(r) ==
  /\ r.op = "leaveMe"
  /\ net' = Settle(r) (+) SetToBag({Get(r.gen, "leaveDelete", r.conv)})
  /\ out' = Did("leaveMeOk")
  /\ UNCHANGED <<area, token, route, gen, gate, pageVars, childVars, srvVars>>

\* onClose() is the page's setShowGroupInfo(false) (Community.tsx 513)
LeaveDeleteOk(r) ==
  /\ r.op = "leaveDelete"
  /\ ConvExists(r.conv)
  /\ net' = Settle(r)
  /\ showGroupInfo' = IF Live(r) THEN FALSE ELSE showGroupInfo
  /\ out' = Toast("leaveDeleteOk", "You left the group")
  /\ UNCHANGED <<area, token, route, gen, gate, chats, users, selectedChatId, loading,
                 showCreateGroup, childVars, srvVars>>

HandleDeleteGroup ==
  /\ PanelOpen /\ Quiet
  /\ net' = Send(Get(gen, "deleteGroup", selectedChatId))
  /\ out' = Did("handleDeleteGroup")
  /\ UNCHANGED <<area, token, route, gen, gate, pageVars, childVars, srvVars>>

\* DELETE /api/conversations/:id removes the conversation at the API
DeleteConv(conv) ==
  MapSeq(srvConvs, LAMBDA c : IF ToString(c.id) = conv THEN [c EXCEPT !.alive = FALSE] ELSE c)

DeleteGroupOk(r) ==
  /\ r.op = "deleteGroup"
  /\ ConvExists(r.conv)
  /\ srvConvs' = DeleteConv(r.conv)
  /\ net' = Settle(r)
  /\ showGroupInfo' = IF Live(r) THEN FALSE ELSE showGroupInfo
  /\ out' = Toast("deleteGroupOk", "Group deleted successfully")
  /\ UNCHANGED <<area, token, route, gen, gate, chats, users, selectedChatId, loading,
                 showCreateGroup, childVars, srvMsgs>>

(* ------------------------------- steps -------------------------------- *)
\* a request in flight is answered, with success or with failure
Response ==
  \E r \in InFlight :
    \/ MeOk(r)
    \/ MeFail(r)
    \/ ConversationsOk(r)
    \/ ConversationsFail(r)
    \/ PageUsersOk(r)
    \/ \E k \in r.lo..Len(srvMsgs) : PageMessagesOk(r, k) \/ ThreadMessagesOk(r, k)
    \/ ThreadMessagesFail(r)
    \/ ThreadSendOk(r)
    \/ PageSendOk(r)
    \/ CallFailed(r)
    \/ DmOk(r)
    \/ DialogUsersOk(r)
    \/ DialogGroupOk(r)
    \/ DialogGroupFail(r)
    \/ PageGroupOk(r)
    \/ \E ms \in MemberLists : MembersOk(r, ms)
    \/ MembersFail(r)
    \/ AddMemberOk(r)
    \/ AddMemberFail(r)
    \/ RemoveMemberOk(r)
    \/ LeaveMeOk(r)
    \/ LeaveDeleteOk(r)
    \/ DeleteGroupOk(r)

\* the requests a step issues from the call sites in `sites`
Issued(sites) ==
  LET new == net' (-) net
  IN  BagCardinality([q \in {x \in BagToSet(new) : x.op \in sites} |-> new[q]])

\* the call sites of the page handlers that ChatThread and the dialog call after
\* their own POST has succeeded: the user's action was already counted for that
\* POST, and no other event stands behind the page handler's request
Relayed == {"pageSend", "pageGroup"}

\* every request a step issues from a call site other than Relayed is issued on
\* an event of its own: a mount (verify, then the two lists), a user action (a
\* handler; the second call of a leave), an effect run on a selection or group
\* change; the event is counted when its request is issued
Tally ==
  slack' = [op \in Operations |->
              slack[op] + Issued(Sites(op) \ Relayed) - Issued(Sites(op))]

\* the selection a step leaves is recorded for as long as the page stays
\* mounted; a mount starts from useState<string>() again (Community.tsx 55)
Visit ==
  opened' = IF route' = "community" /\ gen' = gen
            THEN opened \cup ({selectedChatId'} \ {NoChat})
            ELSE {}

\* the bookkeeping of a step; the search box, localStorage's "user" and the
\* navigation bar are left as they are
Track == Tally /\ Visit /\ UNCHANGED <<searchTerm, sessionVars>>

\* the user's moves; in one run the user works in one area of the page
Next ==
  \/ Mount /\ Track
  \/ Response /\ Track
  \/ NavigateAway /\ Track
  \/ area \in {"thread", "list", "panel"} /\ (\E i \in 1..Len(chats) : SelectChat(i)) /\ Track
  \/ area \in {"thread"} /\ (\E m \in Contents : SetMessage(m)) /\ Track
  \/ area \in {"thread"} /\ HandleSend /\ Track
  \/ area \in {"list"} /\ (\E u \in Users : HandleOpenDm(u)) /\ Track
  \/ area \in {"list"} /\ (\E id \in StarIds : HandleToggleFavorite(id)) /\ Track
  \/ area \in {"group"} /\ OpenCreateGroup /\ Track
  \/ area \in {"group"} /\ CloseCreateGroup /\ Track
  \/ area \in {"group"} /\ (\E n \in Contents : SetGroupName(n)) /\ Track
  \/ area \in {"group"} /\ (\E u \in Users : ToggleMember(u)) /\ Track
  \/ area \in {"group"} /\ HandleCreate /\ Track
  \/ area \in {"panel"} /\ OpenInfo /\ Track
  \/ area \in {"panel"} /\ CloseInfo /\ Track
  \/ area \in {"panel"} /\ (\E answer \in PromptAnswers : HandleAddMembers(answer)) /\ Track
  \/ area \in {"panel"} /\ (\E i \in 1..Len(drawer.members) : HandleRemoveMember(i)) /\ Track
  \/ area \in {"panel"} /\ HandleLeaveGroup /\ Track
  \/ area \in {"panel"} /\ HandleDeleteGroup /\ Track

Spec == Init /\ [][Next]_vars

\* a page that stays mounted with a valid session over an API that holds two
\* group conversations, the user working in the thread
InitPair ==
  /\ token = "jwt"
  /\ area = "thread"
  /\ slack = [op \in Operations |-> 0]
  /\ opened = {}
  /\ searchTerm = <<>>
  /\ savedUser = (IF token = NoToken THEN NoUser ELSE "profile")
  /\ navUser = savedUser
  /\ loggedOut = FALSE
  /\ route = "other"
  /\ gen = 0
  /\ gate = "idle"
  /\ chats = <<>>
  /\ users = <<>>
  /\ selectedChatId = NoChat
  /\ loading = TRUE
  /\ showGroupInfo = FALSE
  /\ showCreateGroup = FALSE
  /\ thread = ThreadInit
  /\ drawer = DrawerInit
  /\ dialog = DialogInit
  /\ net = EmptyBag
  /\ srvConvs = <<[id |-> 1, type |-> "GROUP", user |-> 0, alive |-> TRUE],
                  [id |-> 2, type |-> "GROUP", user |-> 0, alive |-> TRUE]>>
  /\ srvMsgs = <<[conv |-> 1, isMe |-> FALSE, content |-> <<"a">>]>>
  /\ out = Did("init")

ResponsePair ==
  \E r \in InFlight :
    \/ MeOk(r)
    \/ ConversationsOk(r)
    \/ ConversationsFail(r)
    \/ PageUsersOk(r)
    \/ \E k \in r.lo..Len(srvMsgs) : PageMessagesOk(r, k) \/ ThreadMessagesOk(r, k)
    \/ ThreadMessagesFail(r)
    \/ ThreadSendOk(r)
    \/ PageSendOk(r)
    \/ CallFailed(r)

\* the user acts once the directory request of the mount has been answered
Settled == ~\E q \in InFlight : q.op = "pageUsers"

NextPair ==
  \/ Mount /\ gen = 0 /\ Track
  \/ ResponsePair /\ Track
  \/ Settled /\ (\E i \in 1..Len(chats) : SelectChat(i)) /\ Track
  \/ Settled /\ SetMessage(<<"a">>) /\ Track
  \/ Settled /\ HandleSend /\ Track

SpecPair == InitPair /\ [][NextPair]_vars

(* ------------------------------ the views ----------------------------- *)
MaxTerm == 2

\* the letters of names and search terms
Letters == {"a", "A", "b"}

RECURSIVE TermsUpTo(_)
TermsUpTo(n) ==
  IF n = 0 THEN {<<>>}
  ELSE LET shorter == TermsUpTo(n - 1)
       IN  shorter \cup {Append(s, c) : s \in {t \in shorter : Len(t) = n - 1}, c \in Letters}

Terms == TermsUpTo(MaxTerm)

\* String.prototype.toLowerCase
ToLowerCase(s) == [i \in 1..Len(s) |-> IF s[i] = "A" THEN "a" ELSE s[i]]

\* String.prototype.includes
Includes(s, t) == \E i \in 0..(Len(s) - Len(t)) : SubSeq(s, i + 1, i + Len(t)) = t

\* the names the API gives: conv.name of a conversation, name of a user
ChatName(id) ==
  CASE id = "1" -> <<"a", "b">>
    [] id = "2" -> <<"B", "A">>
    [] OTHER -> <<"b">>

UserName(u) == IF u = 1 THEN <<"A">> ELSE <<"b", "a">>

\* name.toLowerCase().includes(searchTerm.toLowerCase())
NameMatches(name) == Includes(ToLowerCase(name), ToLowerCase(searchTerm))

FilteredChats == SelectSeq(chats, LAMBDA c : NameMatches(ChatName(c.id)))

\* the entry the All tab builds for a directory user
UserEntry(u) ==
  [id |-> "user-" \o ToString(u), isGroup |-> FALSE, isFavorite |-> FALSE, members |-> <<u>>,
   messages |-> <<>>, type |-> "USER", user |-> TRUE]

ChatEntry(c) ==
  [id |-> c.id, isGroup |-> c.isGroup, isFavorite |-> c.isFavorite, members |-> c.members,
   messages |-> c.messages, type |-> c.type, user |-> FALSE]

CombinedAll == MapSeq(FilteredChats, ChatEntry) \o MapSeq(users, UserEntry)

ItemName(item) == IF item.user THEN UserName(item.members[1]) ELSE ChatName(item.id)

\* an All tab that shows the merged entries without filtering them again
AllView_Unfiltered == CombinedAll

AllView == SelectSeq(CombinedAll, LAMBDA item : NameMatches(ItemName(item)))

\* ChatList lists the chats it is given
ChatList(cs) == cs

FavoritesView == ChatList(SelectSeq(FilteredChats, LAMBDA c : c.isFavorite))

GroupsView == ChatList(SelectSeq(FilteredChats, LAMBDA c : c.isGroup))

UsersView == SelectSeq(users, LAMBDA u : NameMatches(UserName(u)))

\* the search box's onChange
SetSearchTerm(t) ==
  /\ Interactive
  /\ t # searchTerm
  /\ searchTerm' = t
  /\ out' = Did("setSearchTerm")
  /\ UNCHANGED <<area, token, route, gen, gate, pageVars, childVars, net, srvVars, slack, opened,
                 sessionVars>>

\* the conversations the API can hold: ids 1 and 2, each a group or a direct chat
ViewConvs ==
  {<<[id |-> 1, type |-> t1, user |-> 0, alive |-> TRUE],
     [id |-> 2, type |-> t2, user |-> 0, alive |-> TRUE]>> : t1, t2 \in {"GROUP", "DM"}}

\* a loaded page in front of its chat list
InitViews ==
  /\ token = "jwt"
  /\ area = "list"
  /\ slack = [op \in Operations |-> 0]
  /\ opened = {}
  /\ searchTerm = <<>>
  /\ savedUser = (IF token = NoToken THEN NoUser ELSE "profile")
  /\ navUser = savedUser
  /\ loggedOut = FALSE
  /\ route = "community"
  /\ gen = 1
  /\ gate = "ok"
  /\ srvConvs \in ViewConvs
  /\ chats = MapSeq(srvConvs, FormatChat)
  /\ users = DirectoryData
  /\ selectedChatId = NoChat
  /\ loading = FALSE
  /\ showGroupInfo = FALSE
  /\ showCreateGroup = FALSE
  /\ thread = ThreadInit
  /\ drawer = DrawerInit
  /\ dialog = DialogInit
  /\ net = EmptyBag
  /\ srvMsgs = <<>>
  /\ out = Did("init")

NextViews ==
  \/ \E t \in Terms : SetSearchTerm(t)
  \/ (\E id \in StarIds : HandleToggleFavorite(id)) /\ Track

SpecViews == InitViews /\ [][NextViews]_vars

(* ----------------------------- the session --------------------------- *)
\* the browser holds a token or none and a saved user or none; the navigation
\* bar's effect has read the saved user (part_000 17-22)
InitSession ==
  /\ token \in Tokens
  /\ area = "list"
  /\ slack = [op \in Operations |-> 0]
  /\ opened = {}
  /\ searchTerm = <<>>
  /\ savedUser \in SavedUsers
  /\ navUser = savedUser
  /\ loggedOut = FALSE
  /\ route = "other"
  /\ gen = 0
  /\ gate = "idle"
  /\ chats = <<>>
  /\ users = <<>>
  /\ selectedChatId = NoChat
  /\ loading = TRUE
  /\ showGroupInfo = FALSE
  /\ showCreateGroup = FALSE
  /\ thread = ThreadInit
  /\ drawer = DrawerInit
  /\ dialog = DialogInit
  /\ net = EmptyBag
  /\ srvConvs = <<[id |-> 1, type |-> "GROUP", user |-> 0, alive |-> TRUE]>>
  /\ srvMsgs = <<[conv |-> 1, isMe |-> FALSE, content |-> <<"a">>]>>
  /\ out = Did("init")

\* the answers to the requests of the session gate and of the two lists
ResponseSession ==
  \E r \in InFlight :
    \/ MeOk(r)
    \/ MeFail(r)
    \/ ConversationsOk(r)
    \/ ConversationsFail(r)
    \/ PageUsersOk(r)
    \/ CallFailed(r)

\* the user opens the page, leaves it and logs out, in any order
NextSession ==
  \/ Mount /\ Track
  \/ ResponseSession /\ Track
  \/ NavigateAway /\ Track
  \/ HandleLogout

SpecSession == InitSession /\ [][NextSession]_vars

(* ------------------------------ progress ------------------------------ *)
\* a request of the mounted page for the conversation list is answered
ConversationsAnswer ==
  \E r \in InFlight : Live(r) /\ (ConversationsOk(r) \/ ConversationsFail(r)) /\ Track

\* a request of the mounted page's thread view for messages is answered
ThreadMessagesAnswer ==
  \E r \in InFlight :
    /\ Live(r)
    /\ \/ \E k \in r.lo..Len(srvMsgs) : ThreadMessagesOk(r, k)
       \/ ThreadMessagesFail(r)
    /\ Track

\* a request of the mounted page's group panel to add a member is answered
AddMemberAnswer ==
  \E r \in InFlight : Live(r) /\ (AddMemberOk(r) \/ AddMemberFail(r)) /\ Track

\* every axios promise settles: a request that stays in flight for a page that
\* stays mounted is answered, with success or with failure
Fairness ==
  /\ WF_vars(ConversationsAnswer)
  /\ WF_vars(ThreadMessagesAnswer)
  /\ WF_vars(AddMemberAnswer)

\* the user works in the thread or in the group panel
InitLive == Init /\ area \in {"thread", "panel"}

\* the answers to the requests of the page, the thread view and the panel
ResponseLive ==
  \E r \in InFlight :
    \/ MeOk(r)
    \/ MeFail(r)
    \/ ConversationsOk(r)
    \/ ConversationsFail(r)
    \/ PageUsersOk(r)
    \/ \E k \in r.lo..Len(srvMsgs) : PageMessagesOk(r, k) \/ ThreadMessagesOk(r, k)
    \/ ThreadMessagesFail(r)
    \/ ThreadSendOk(r)
    \/ PageSendOk(r)
    \/ CallFailed(r)
    \/ \E ms \in MemberLists : MembersOk(r, ms)
    \/ MembersFail(r)
    \/ AddMemberOk(r)
    \/ AddMemberFail(r)
    \/ RemoveMemberOk(r)
    \/ LeaveMeOk(r)
    \/ LeaveDeleteOk(r)
    \/ DeleteGroupOk(r)

NextLive ==
  \/ Mount /\ Track
  \/ ResponseLive /\ Track
  \/ NavigateAway /\ Track
  \/ (\E i \in 1..Len(chats) : SelectChat(i)) /\ Track
  \/ area \in {"thread"} /\ (\E m \in Contents : SetMessage(m)) /\ Track
  \/ area \in {"thread"} /\ HandleSend /\ Track
  \/ area \in {"panel"} /\ OpenInfo /\ Track
  \/ area \in {"panel"} /\ CloseInfo /\ Track
  \/ area \in {"panel"} /\ (\E answer \in PromptAnswers : HandleAddMembers(answer)) /\ Track
  \/ area \in {"panel"} /\ (\E i \in 1..Len(drawer.members) : HandleRemoveMember(i)) /\ Track
  \/ area \in {"panel"} /\ HandleLeaveGroup /\ Track
  \/ area \in {"panel"} /\ HandleDeleteGroup /\ Track

SpecLive == InitLive /\ [][NextLive]_vars /\ Fairness

(* ------------------------------ claims -------------------------------- *)
\* how often request q is in bag b
Copies(b, q) == IF q \in BagToSet(b) THEN CopiesIn(q, b) ELSE 0

Blank(s) == Falsy(Trim(s))

\* C1: sending a message whose content is empty or only whitespace issues no
\* request and changes no message list: a step of ChatThread.handleSend on
\* such an input leaves the requests in flight, the page's chats and the
\* thread's messages as they were, and Community.handleSendMessage issues no
\* request for any such content
C1_BlankSendIssuesNothing ==
  [][ /\ (HandleSend /\ Blank(thread.message))
          => (net' = net /\ chats' = chats /\ thread'.messages = thread.messages)
      /\ \A c \in Contents : \A g \in 0..MaxMounts :
           Blank(c) => PageSendRequests(g, selectedChatId, c) = EmptyBag ]_vars

\* handleSend has run on a whitespace-only input
C1_Witness ==
  /\ out.op = "handleSend"
  /\ HasThread
  /\ thread.message # <<>>
  /\ Blank(thread.message)

\* the list `after` is the list `before` followed by one message m
AppendedOwn(before, after, content) ==
  /\ Len(after) = Len(before) + 1
  /\ SubSeq(after, 1, Len(before)) = before
  /\ after[Len(after)].isOwn = TRUE
  /\ after[Len(after)].content = content

\* C2: when a POST /api/messages is acknowledged, the message list it updates
\* (the thread's for ChatThread.handleSend, the chat's for
\* Community.handleSendMessage) is its previous list followed by one new
\* message with isOwn = TRUE; nothing earlier is removed or reordered
C2_SendAppendsOwnMessage ==
  [][ \A r \in InFlight :
        /\ (ThreadSendOk(r) /\ Live(r))
             => AppendedOwn(thread.messages, thread'.messages, r.content)
        /\ (PageSendOk(r) /\ Live(r))
             => /\ Len(chats') = Len(chats)
                /\ \A i \in 1..Len(chats) :
                     IF chats[i].id = r.conv
                     THEN AppendedOwn(chats[i].messages, chats'[i].messages, r.content)
                     ELSE chats'[i] = chats[i] ]_vars

\* a send was acknowledged in a thread that already showed a message
C2_Witness ==
  /\ out.op = "threadSendOk"
  /\ route = "community"
  /\ Len(thread.messages) >= 2
  /\ thread.messages[Len(thread.messages)].isOwn
  /\ ~thread.messages[1].isOwn

\* C3 (as claimed): when handleOpenDm's request returns a conversation id that
\* is already in the conversation list, the list is left unchanged and the
\* selected conversation becomes that id
C3_OpenDmNoDuplicate ==
  [][ \A r \in InFlight :
        (DmOk(r) /\ Live(r) /\ ToString(DmId(r.ids[1])) \in Range(ChatIds(chats)))
          => (chats' = chats /\ selectedChatId' = ToString(DmId(r.ids[1]))) ]_vars

\* C4 (as claimed): no two entries of the conversation list have the same id
C4_UniqueConversationIds ==
  \A i \in 1..Len(chats) : \A j \in 1..Len(chats) : i # j => chats[i].id # chats[j].id

\* C5: for every conversation of the list, toggling its favorite status twice
\* gives back the whole list
C5_DoubleToggleRestores ==
  \A id \in Range(ChatIds(chats)) :
    ToggleFavorite(ToggleFavorite(chats, id), id) = chats

\* a toggle has acted: some conversation is a favorite
C5_Witness ==
  /\ out.op = "handleToggleFavorite"
  /\ \E i \in 1..Len(chats) : chats[i].isFavorite

\* C6: toggling a favorite issues no request, and when the conversation list is
\* loaded from the API every conversation has its favorite flag FALSE
C6_FavoriteNotPersisted ==
  [][ /\ \A id \in StarIds : HandleToggleFavorite(id) => (net' = net /\ srvConvs' = srvConvs)
      /\ \A r \in InFlight :
           (ConversationsOk(r) /\ Live(r))
             => /\ Len(chats') = Len(ConversationsData)
                /\ \A i \in 1..Len(chats') : ~chats'[i].isFavorite ]_vars

\* the list was loaded again by a second mount
C6_Witness ==
  /\ gen = 2
  /\ out.op = "conversationsOk"
  /\ route = "community"
  /\ Len(chats) > 0

\* C7: a create action with an empty member selection, or a group name that is
\* empty once trimmed, issues no request, leaves the conversation list and
\* the dialog's inputs unchanged and keeps the dialog open
C7_EmptyGroupRejected ==
  [][ (HandleCreate /\ (Len(dialog.selectedMembers) = 0 \/ Blank(dialog.groupName)))
        => /\ net' = net
           /\ chats' = chats
           /\ dialog' = dialog
           /\ showCreateGroup' = TRUE
           /\ srvConvs' = srvConvs ]_vars

\* the create action ran with a name and no member selected
C7_Witness ==
  /\ out.op = "handleCreate"
  /\ out.toast = "Please select at least one member"
  /\ ~Blank(dialog.groupName)
  /\ showCreateGroup

ListRequest(q) == q.op \in {"conversations", "pageUsers", "dialogUsers"}

\* C8: on mount the page redirects to the login view when no credential is
\* stored and otherwise verifies it with GET /api/auth/me; a failed
\* verification redirects to the login view; the conversation list and the
\* directory are requested only by a successful verification's continuation
\* or, for the dialog's directory, on a page that has been verified
C8_SessionGate ==
  [][ /\ Mount => IF token = NoToken
                  THEN route' = "login" /\ net' = net
                  ELSE Copies(net', Get(gen', "me", NoChat)) = Copies(net, Get(gen', "me", NoChat)) + 1
      /\ \A r \in InFlight : MeFail(r) => route' = "login"
      /\ \A q \in BagToSet(net') :
           (ListRequest(q) /\ Copies(net', q) > Copies(net, q))
             => \/ \E r \in InFlight : MeOk(r) /\ r.gen = q.gen
                \/ q.op = "dialogUsers" /\ gate = "ok" /\ q.gen = gen
      /\ gate \in {"failed", "notoken", "verifying"}
           => ~\E q \in InFlight : ListRequest(q) /\ q.gen = gen ]_vars

\* a verification failed and the page redirected
C8_Witness ==
  /\ out.op = "meFail"
  /\ gate = "failed"
  /\ route = "login"

\* the steps in which a call of the API fails (the session check aside)
CallFails(r) ==
  \/ ConversationsFail(r)
  \/ ThreadMessagesFail(r)
  \/ CallFailed(r)
  \/ DialogGroupFail(r)
  \/ MembersFail(r)
  \/ AddMemberFail(r)

ListsUnchanged ==
  /\ chats' = chats
  /\ thread'.messages = thread.messages
  /\ drawer'.members = drawer.members
  /\ selectedChatId' = selectedChatId

\* the calls whose catch block logs and shows no notice
SilentCalls ==
  {"conversations", "pageUsers", "pageMessages", "threadMessages", "threadSend", "pageSend"}

\* C9 (as claimed): every failed call is logged, shows a notice, and leaves
\* the conversation list, the message lists, the member list and the
\* selection unchanged
C9_FailureLoggedAndNoticed ==
  [][ \A r \in InFlight :
        CallFails(r) => (out'.log # "" /\ out'.toast # "" /\ ListsUnchanged) ]_vars

\* C9 (amended): every failed call is logged and leaves the lists and the
\* selection unchanged; it shows a notice except for list conversations, the
\* page's directory load, list messages and send message
C9_FailureLogged ==
  [][ \A r \in InFlight :
        CallFails(r) => /\ out'.log # ""
                        /\ (out'.toast = "") <=> (r.op \in SilentCalls)
                        /\ ListsUnchanged ]_vars

\* a send failed in a thread that showed messages: logged, no notice
C9_Witness ==
  /\ out.op = "threadSendFail"
  /\ out.log # ""
  /\ out.toast = ""
  /\ route = "community"
  /\ Len(thread.messages) > 0

\* C10 (as claimed): for every operation, the number of requests issued never
\* exceeds the number of events that trigger it (a mount, a user action, an
\* effect run on a selection or group change)
C10_RequestsWithinTriggers == \A op \in Operations : slack[op] >= 0

GroupSites == {"dialogGroup", "pageGroup"}

\* C11 (as claimed): one confirmed creation in the dialog issues exactly one
\* POST /api/conversations/group, with body {name, memberIds}; when the API
\* acknowledges it no further POST is issued, exactly one group carrying the
\* id the API returned for that request is prepended to the conversation list,
\* and the dialog closes
C11_OneGroupPost ==
  [][ /\ (HandleCreate /\ CreateRejection(dialog.groupName, dialog.selectedMembers) = "")
           => /\ Issued(GroupSites) = 1
              /\ \E q \in BagToSet(net' (-) net) :
                   /\ q.op \in GroupSites
                   /\ q.content = Trim(dialog.groupName)
                   /\ q.ids = dialog.selectedMembers
      /\ \A r \in InFlight :
           (DialogGroupOk(r) /\ Live(r))
             => /\ Issued(GroupSites) = 0
                /\ chats' = <<NewGroupChat(Len(srvConvs) + 1)>> \o chats
                /\ showCreateGroup' = FALSE ]_vars

ListsKept ==
  /\ chats' = chats
  /\ thread'.messages = thread.messages
  /\ drawer'.members = drawer.members

\* the steps in which the API acknowledges a request
Acknowledged(r) ==
  \/ ConversationsOk(r)
  \/ \E k \in r.lo..Len(srvMsgs) : PageMessagesOk(r, k) \/ ThreadMessagesOk(r, k)
  \/ ThreadSendOk(r)
  \/ PageSendOk(r)
  \/ DmOk(r)
  \/ PageGroupOk(r)
  \/ \E ms \in MemberLists : MembersOk(r, ms)
  \/ AddMemberOk(r)
  \/ RemoveMemberOk(r)

\* C13: a step that issues a send, create-group, open-direct-chat, add-member
\* or remove-member request leaves the conversation list, the thread's
\* messages and the member list as they were; these lists change only in a step
\* in which the API acknowledges a request, the local favorite toggle and the
\* reset of an unmounting or mounting page aside
C13_UpdatesAfterSuccess ==
  [][ /\ ( \/ HandleSend
           \/ HandleCreate
           \/ \E u \in Users : HandleOpenDm(u)
           \/ \E answer \in PromptAnswers : HandleAddMembers(answer)
           \/ \E i \in 1..Len(drawer.members) : HandleRemoveMember(i) ) => ListsKept
      /\ ~ListsKept => \/ \E r \in InFlight : Acknowledged(r)
                       \/ \E id \in StarIds : HandleToggleFavorite(id)
                       \/ Mount \/ NavigateAway \/ \E r \in InFlight : MeFail(r) ]_vars

\* a removal was requested and the member is still listed
C13_Witness ==
  /\ out.op = "handleRemoveMember"
  /\ \E q \in InFlight : q.op = "removeMember" /\ ToString(q.ids[1]) \in Range(drawer.members)

\* C14: every request in flight carries an Authorization header built from a
\* stored credential, never from a missing one
C14_BearerHeader ==
  \A q \in InFlight : q.auth \in {Bearer(t) : t \in Tokens \ {NoToken}}

\* the thread's POST was acknowledged and the page's POST is in flight
C14_Witness ==
  /\ out.op = "threadSendOk"
  /\ \E q \in InFlight : q.op = "pageSend" /\ q.auth = Bearer("jwt")

\* the name contains the term, letter case ignored
Contains(name, term) ==
  \E i \in 1..(Len(name) + 1) : \E j \in (i - 1)..Len(name) :
    ToLowerCase(SubSeq(name, i, j)) = ToLowerCase(term)

ChatIdsWhere(P(_)) == {c.id : c \in {d \in Range(chats) : P(d)}}

UserIdsWhere(P(_)) == {u \in Range(users) : P(u)}

\* C15: for every search term, the Favorites view lists exactly the
\* conversations whose favorite flag is set and whose name contains the term,
\* the Groups view exactly the group conversations whose name contains it, the
\* Users view exactly the directory users whose name contains it, and the All
\* view exactly the name-matching conversations together with the
\* name-matching directory users (names are compared with letter case ignored)
C15_FilterViews ==
  /\ Range(ChatIds(FavoritesView))
       = ChatIdsWhere(LAMBDA c : c.isFavorite /\ Contains(ChatName(c.id), searchTerm))
  /\ Range(ChatIds(GroupsView))
       = ChatIdsWhere(LAMBDA c : c.isGroup /\ Contains(ChatName(c.id), searchTerm))
  /\ Range(UsersView) = UserIdsWhere(LAMBDA u : Contains(UserName(u), searchTerm))
  /\ {item.id : item \in {x \in Range(AllView) : ~x.user}}
       = ChatIdsWhere(LAMBDA c : Contains(ChatName(c.id), searchTerm))
  /\ {item.members[1] : item \in {x \in Range(AllView) : x.user}}
       = UserIdsWhere(LAMBDA u : Contains(UserName(u), searchTerm))
  /\ Len(AllView) = Cardinality(ChatIdsWhere(LAMBDA c : Contains(ChatName(c.id), searchTerm)))
                    + Cardinality(UserIdsWhere(LAMBDA u : Contains(UserName(u), searchTerm)))

\* a term that matches one favorite and not the other, and no user
C15_Witness ==
  /\ out.op = "setSearchTerm"
  /\ searchTerm = <<"A", "b">>
  /\ Len(FavoritesView) = 1
  /\ Len(SelectSeq(chats, LAMBDA c : c.isFavorite)) = 2
  /\ Len(UsersView) = 0

\* the conversation the API keeps the message with this id in (ids are
\* positions in srvMsgs), as the decimal string the list uses
ConvOfMessage(m) ==
  LET i == CHOOSE j \in 1..Len(srvMsgs) : ToString(j) = m.id
  IN  ToString(srvMsgs[i].conv)

\* C16 (as claimed): whenever the thread view is rendered and not loading,
\* every message it displays belongs to the selected conversation
C16_ThreadShowsSelected ==
  (route = "community" /\ HasThread /\ ~thread.loading)
    => \A k \in 1..Len(thread.messages) : ConvOfMessage(thread.messages[k]) = selectedChatId

\* the messages the API holds that the user sent
StoredOwn == Len(SelectSeq(srvMsgs, LAMBDA m : m.isMe))

\* C17 (as claimed): the number of POST /api/messages requests issued equals
\* the number of send actions, and no acknowledged request stores a message
\* that an earlier request of the same send action has stored
C17_OneSendPost ==
  [][ /\ slack["send"] = 0 /\ slack'["send"] = 0
      /\ \A r \in InFlight : PageSendOk(r) => StoredOwn' = StoredOwn ]_vars

\* the ids of the user's own messages the thread view displays
OwnShown(t) == {t.messages[k].id : k \in {j \in 1..Len(t.messages) : t.messages[j].isOwn}}

\* C18 (as claimed): across every step that keeps the page mounted and the same
\* conversation selected, every own message the thread view displays (an
\* acknowledged message appended by handleSend included) is still displayed
C18_AcknowledgedStays ==
  [][ (route = "community" /\ route' = "community" /\ gen' = gen
       /\ HasThread /\ selectedChatId' = selectedChatId)
      => OwnShown(thread) \subseteq OwnShown(thread') ]_vars

\* C19 (as claimed): when a delete or a leave issued from the group panel of the
\* mounted page succeeds, the conversation is afterwards neither in the page's
\* conversation list nor the selected conversation
C19_GoneAfterDeleteOrLeave ==
  [][ \A r \in InFlight :
        ((DeleteGroupOk(r) \/ LeaveDeleteOk(r)) /\ Live(r))
          => /\ ~Some(chats', LAMBDA c : c.id = r.conv)
             /\ selectedChatId' # r.conv ]_vars

\* the favorite button of a Users-tab entry passes the user's id
UsersTabStar(u) == HandleToggleFavorite(ToString(u))

\* the favorite button of a user's entry in the All tab passes the entry's id
AllTabUserStar(u) == HandleToggleFavorite(UserEntry(u).id)

\* the favorite flag of every conversation of the list
Favorites(cs) == [k \in 1..Len(cs) |-> cs[k].isFavorite]

\* C20 (as claimed): pressing the favorite button of a directory user's entry,
\* in the Users tab or in the All tab, leaves the favorite flag of every
\* conversation as it was
C20_UserStarKeepsFavorites ==
  [][ \A k \in 1..Len(users) :
        (UsersTabStar(users[k]) \/ AllTabUserStar(users[k]))
          => Favorites(chats') = Favorites(chats) ]_vars

\* C21 (as claimed): once handleLogout has run, every mount of the page
\* redirects to the login view and issues no request
C21_NoAdmissionAfterLogout ==
  [][ (loggedOut /\ Mount) => (route' = "login" /\ net' = net) ]_vars

\* the page's loading flag clears once the session is verified
PageLoadingClears ==
  (route = "community" /\ gate = "ok" /\ loading) ~> (route # "community" \/ ~loading)

\* the thread view's loading flag clears after a selection
ThreadLoadingClears ==
  (route = "community" /\ HasThread /\ thread.loading)
    ~> (route # "community" \/ ~HasThread \/ ~thread.loading)

\* the group panel's adding flag returns to false
AddingClears == drawer.adding ~> ~drawer.adding

\* an add-member attempt cancelled at the prompt leaves adding false and
\* issues no request
CancelledAddIsIdle ==
  [][ HandleAddMembers("") => (~drawer'.adding /\ net' = net) ]_vars

\* C22: for as long as the page stays mounted, once the session is verified the
\* page's loading flag eventually is false, whether the conversation fetch
\* succeeds or fails; the loading flag of a rendered thread view eventually is
\* false; the group panel's adding flag eventually is false again after every
\* add-member attempt, and an attempt cancelled at the prompt leaves it false
\* and issues no request
C22_BusyFlagsClear ==
  PageLoadingClears /\ ThreadLoadingClears /\ AddingClears /\ CancelledAddIsIdle

\* in the group panel of a loaded page with an idle thread view, a failed
\* add-member attempt has put the adding flag back
C22_Witness ==
  /\ out.op = "addMemberFail"
  /\ route = "community" /\ gate = "ok" /\ ~loading
  /\ HasThread /\ ~thread.loading
  /\ ~drawer.adding

=============================================================================
